---------------------------- MODULE Spec2Model ----------------------------
(***************************************************************************)
(* Fixed-asset accounting backend (Juleanna/Buh): the depreciation         *)
(* calculator, the period accrual batch (manual and scheduled), and the    *)
(* lifecycle handlers (disposal, revaluation, improvement) over the Asset, *)
(* DepreciationRecord and AccountEntry tables.                             *)
(*                                                                         *)
(* Money is counted in kopecks (1/100 UAH): a Decimal with two places is   *)
(* the integer number of its hundredths, and quantize(Decimal('0.01'),     *)
(* ROUND_HALF_UP) of a quotient is RoundHalfUp(numerator, denominator).    *)
(* A date is a month index: 0 is January 2024.  A table is a bag of rows   *)
(* (the auto-increment primary key is left out).                           *)
(***************************************************************************)
EXTENDS Integers, Sequences, FiniteSets, Bags, TLC

\* ------------------------------------------------------------------ bounds
MaxPeriod == 2
MaxToday == 1
MaxRevaluations == 1
MaxImprovements == 1

\* the rows of the Asset table
AssetIds == {1, 2}
\* the periods (month indexes) an accrual request may name
Periods == 0..(MaxPeriod - 1)

period_year(p) == 2024 + (p \div 12)
period_month(p) == (p % 12) + 1

\* ------------------------------------------------------- Decimal helpers
Abs(x) == IF x < 0 THEN -x ELSE x
Max(x, y) == IF x >= y THEN x ELSE y

\* (num / den).quantize(Decimal('0.01'), rounding=ROUND_HALF_UP), den > 0,
\* both in kopecks-compatible units: ties go away from zero.
RoundHalfUp(num, den) ==
    IF num >= 0 THEN (2 * num + den) \div (2 * den)
    ELSE -((2 * (-num) + den) \div (2 * den))

\* fixed-point scale of the annual rate of the reducing-balance method
RateScale == 10 ^ 3

\* float(ratio) ** (1.0 / float(useful_life_years)) in units of 1/RateScale,
\* ratio = num / den.  useful_life_years = useful_life_months / 12: a whole
\* number of years is a root, a divisor of 12 months is a power.
RatioPower(num, den, useful_life_months) ==
    CASE useful_life_months % 12 = 0 ->
           LET n == useful_life_months \div 12
           IN  CHOOSE k \in 0..RateScale :
                   /\ (k ^ n) * den <= num * (RateScale ^ n)
                   /\ ((k + 1) ^ n) * den > num * (RateScale ^ n)
      [] 12 % useful_life_months = 0 ->
           LET p == 12 \div useful_life_months
           IN  (RateScale * (num ^ p)) \div (den ^ p)

\* --------------------------------------------------- DepreciationCalculator
\* the quotient cut to the kopeck instead of rounded
calc_straight_line_Truncated(initial_cost, residual_value, useful_life_months, incoming_depreciation) ==
    IF useful_life_months <= 0 THEN 0
    ELSE LET depreciable_amount == initial_cost - residual_value - incoming_depreciation
         IN  IF depreciable_amount <= 0 THEN 0
             ELSE depreciable_amount \div useful_life_months

calc_straight_line(initial_cost, residual_value, useful_life_months, incoming_depreciation) ==
    IF useful_life_months <= 0 THEN 0
    ELSE LET depreciable_amount == initial_cost - residual_value - incoming_depreciation
         IN  IF depreciable_amount <= 0 THEN 0
             ELSE RoundHalfUp(depreciable_amount, useful_life_months)

calc_reducing_balance(initial_cost, residual_value, useful_life_months, current_book_value) ==
    IF useful_life_months <= 0 \/ initial_cost <= 0 THEN 0
    ELSE IF residual_value <= 0
         THEN calc_straight_line(initial_cost, residual_value, useful_life_months, 0)
         ELSE LET annual_rate == RateScale - RatioPower(residual_value, initial_cost, useful_life_months)
              IN  RoundHalfUp(current_book_value * annual_rate, RateScale * 12)

calc_accelerated_reducing(useful_life_months, current_book_value) ==
    IF useful_life_months <= 0 THEN 0
    ELSE RoundHalfUp(current_book_value * 2, useful_life_months)

\* significant digits the decimal context keeps of a quotient or a product
DecimalPrecision == 28

RECURSIVE PowMod(_, _, _)
PowMod(base, exp, modulus) ==
    IF exp = 0 THEN 1 % modulus
    ELSE (base * PowMod(base, exp - 1, modulus)) % modulus

RECURSIVE Digits(_)
Digits(n) == IF n < 10 THEN 1 ELSE 1 + Digits(n \div 10)

\* the least j with num * 10^j >= den
RECURSIVE LeadingZeros(_, _)
LeadingZeros(num, den) ==
    IF num >= den THEN 0 ELSE 1 + LeadingZeros(num * 10, den)

\* (depreciable_amount * (remaining_years / sum_of_years)) / 12 quantized
\* half-up to the kopeck.  The coefficient, the annual amount and the monthly
\* amount are each rounded to DecimalPrecision digits, which shows only when
\* the exact monthly amount ends in half a kopeck: a coefficient rounded down
\* leaves the amount below the half unless the product rounds back onto it.
CumulativeMonthly(depreciable_amount, remaining_years, sum_of_years) ==
    LET num == depreciable_amount * remaining_years
        den == sum_of_years * 12
        r == num \div den
        j == LeadingZeros(remaining_years, sum_of_years)
        f == (remaining_years * PowMod(10, DecimalPrecision - 1 + j, sum_of_years))
                 % sum_of_years
        x == Digits(12 * r + 6) - 1 + j
        back == \/ x >= 10
                \/ (2 * depreciable_amount * f + sum_of_years - 1) \div sum_of_years
                       <= 10 ^ x
    IN  IF 2 * (num - r * den) # den THEN RoundHalfUp(num, den)
        ELSE IF 2 * f >= sum_of_years \/ back THEN r + 1
        ELSE r

\* the method without its guard on remaining_years
calc_cumulative_Unfloored(initial_cost, residual_value, useful_life_months, months_used, incoming_depreciation) ==
    LET useful_life_years == IF useful_life_months \div 12 <= 0 THEN 1
                             ELSE useful_life_months \div 12
        remaining_years == useful_life_years - (months_used \div 12)
        depreciable_amount == initial_cost - residual_value - incoming_depreciation
    IN  IF useful_life_months <= 0 \/ depreciable_amount <= 0 THEN 0
        ELSE RoundHalfUp(depreciable_amount * remaining_years,
                         6 * useful_life_years * (useful_life_years + 1))

calc_cumulative(initial_cost, residual_value, useful_life_months, months_used, incoming_depreciation) ==
    IF useful_life_months <= 0 THEN 0
    ELSE LET useful_life_years == IF useful_life_months \div 12 <= 0 THEN 1
                                  ELSE useful_life_months \div 12
             current_year == (months_used \div 12) + 1
             remaining_years == useful_life_years - current_year + 1
             sum_of_years == (useful_life_years * (useful_life_years + 1)) \div 2
             depreciable_amount == initial_cost - residual_value - incoming_depreciation
         IN  IF remaining_years <= 0 THEN 0
             ELSE IF depreciable_amount <= 0 THEN 0
             ELSE CumulativeMonthly(depreciable_amount, remaining_years, sum_of_years)

\* total_capacity = 0 stands for None as well (both are falsy), and so does
\* monthly_volume = 0.
calc_production(initial_cost, residual_value, total_capacity, monthly_volume, incoming_depreciation) ==
    IF total_capacity <= 0 \/ monthly_volume = 0 THEN 0
    ELSE LET depreciable_amount == initial_cost - residual_value - incoming_depreciation
         IN  IF depreciable_amount <= 0 THEN 0
             ELSE RoundHalfUp(depreciable_amount * monthly_volume, total_capacity)

\* months_used is always None at both call sites: it is derived from the
\* wall clock (now), not from the period that is being accrued.
MonthsUsed(asset, now) == Max(now - asset.depreciation_start_date, 0)

DispatchAmount(asset, production_volume, now) ==
    CASE asset.depreciation_method = "straight_line" ->
           calc_straight_line(asset.initial_cost, asset.residual_value,
                              asset.useful_life_months, asset.incoming_depreciation)
      [] asset.depreciation_method = "reducing_balance" ->
           calc_reducing_balance(asset.initial_cost, asset.residual_value,
                                 asset.useful_life_months, asset.current_book_value)
      [] asset.depreciation_method = "accelerated_reducing" ->
           calc_accelerated_reducing(asset.useful_life_months, asset.current_book_value)
      [] asset.depreciation_method = "cumulative" ->
           calc_cumulative(asset.initial_cost, asset.residual_value,
                           asset.useful_life_months, MonthsUsed(asset, now),
                           asset.incoming_depreciation)
      [] asset.depreciation_method = "production" ->
           calc_production(asset.initial_cost, asset.residual_value,
                           asset.total_production_capacity, production_volume,
                           asset.incoming_depreciation)
      [] OTHER -> 0

\* the dispatch without its final clamp
ClampToFloor_NoClamp(amount, max_amount) == amount

ClampToFloor(amount, max_amount) == IF amount > max_amount THEN max_amount ELSE amount

calculate_monthly_depreciation(asset, production_volume, now) ==
    IF asset.current_book_value <= asset.residual_value THEN 0
    ELSE ClampToFloor(DispatchAmount(asset, production_volume, now),
                      asset.current_book_value - asset.residual_value)


\* ------------------------------------------------------------------- state
VARIABLES
    assets,                \* Asset table: id -> row
    depreciation_records,  \* DepreciationRecord table (bag of rows)
    account_entries,       \* AccountEntry table (bag of rows)
    disposals,             \* AssetDisposal table (bag of rows)
    revaluations,          \* AssetRevaluation table (bag of rows)
    improvements,          \* AssetImprovement table (bag of rows)
    today,                 \* timezone.now().date() as a month index
    last,                  \* the response of the handler that ran last
    procs,                 \* requests in flight (concurrent specification)
    inventory,             \* an Inventory row with its InventoryItem rows
    organizations          \* Organization table: pk -> row

vars == <<assets, depreciation_records, account_entries, disposals,
          revaluations, improvements, today, last, procs,
          inventory, organizations>>

\* an Inventory in status draft without items (items: asset id -> row)
NoInventory == [status |-> "draft", items |-> <<>>]

\* the tables that the asset handlers never touch
registers == <<inventory, organizations>>

tables == <<assets, depreciation_records, account_entries, disposals,
            revaluations, improvements>>

NoDate == 0 - 1

\* AssetGroup rows the assets point to (account_number, depreciation_account)
GroupBuildings == [account_number |-> "103", depreciation_account |-> "131"]
GroupMachines == [account_number |-> "104", depreciation_account |-> "131"]

\* The request bodies of AssetViewSet.create the model draws the assets from:
\* one or two per depreciation method, in kopecks.
AssetInputs ==
    { [depreciation_method |-> "straight_line", initial_cost |-> 600,
       residual_value |-> 0, incoming_depreciation |-> 0, useful_life_months |-> 2,
       total_production_capacity |-> 0, depreciation_start_date |-> 0,
       commissioning_date |-> 0,
       group |-> GroupMachines],
      [depreciation_method |-> "straight_line", initial_cost |-> 600,
       residual_value |-> 100, incoming_depreciation |-> 200, useful_life_months |-> 1,
       total_production_capacity |-> 0, depreciation_start_date |-> 1,
       commissioning_date |-> 1,
       group |-> GroupBuildings],
      [depreciation_method |-> "reducing_balance", initial_cost |-> 600,
       residual_value |-> 0, incoming_depreciation |-> 200, useful_life_months |-> 2,
       total_production_capacity |-> 0, depreciation_start_date |-> 0,
       commissioning_date |-> 0,
       group |-> GroupMachines],
      [depreciation_method |-> "reducing_balance", initial_cost |-> 600,
       residual_value |-> 150, incoming_depreciation |-> 0, useful_life_months |-> 24,
       total_production_capacity |-> 0, depreciation_start_date |-> 0,
       commissioning_date |-> 0,
       group |-> GroupMachines],
      [depreciation_method |-> "accelerated_reducing", initial_cost |-> 600,
       residual_value |-> 100, incoming_depreciation |-> 0, useful_life_months |-> 2,
       total_production_capacity |-> 0, depreciation_start_date |-> 0,
       commissioning_date |-> 0,
       group |-> GroupMachines],
      [depreciation_method |-> "cumulative", initial_cost |-> 600,
       residual_value |-> 0, incoming_depreciation |-> 0, useful_life_months |-> 24,
       total_production_capacity |-> 0, depreciation_start_date |-> 0 - 11,
       commissioning_date |-> 0 - 11,
       group |-> GroupBuildings],
      [depreciation_method |-> "production", initial_cost |-> 600,
       residual_value |-> 100, incoming_depreciation |-> 0, useful_life_months |-> 12,
       total_production_capacity |-> 10, depreciation_start_date |-> 0,
       commissioning_date |-> 0,
       group |-> GroupMachines] }

\* Asset 1 is drawn from all of AssetInputs; the other rows, which are there
\* to make a batch run over several assets, from these.
CompanionInputs ==
    {d \in AssetInputs : /\ d.depreciation_method = "straight_line"
                          /\ d.residual_value = 0}

\* the inputs of the other requests
Volumes == {0, 5}
\* fair_value: the least value the field accepts (0.01), a lower and a higher one
FairValues == {1, 200, 900}
ImprovementAmounts == {100}
DisposalTypes == {"sale", "liquidation"}
SaleAmounts == {0, 400}
\* document_date / date of a lifecycle request (a month index)
DocumentDate == MaxPeriod

\* ------------------------------------------------------------- Asset.save
\* `not current_book_value` is true of Decimal('0.00') as well as of None.
AssetSave(asset) ==
    IF asset.current_book_value = 0 \/ asset.current_book_value = asset.initial_cost
    THEN [asset EXCEPT !.current_book_value = asset.initial_cost - asset.incoming_depreciation]
    ELSE asset

\* AssetViewSet.perform_create: serializer.save(current_book_value=initial_cost);
\* accumulated_depreciation is read-only in the serializer and defaults to 0.
AssetCreate(id, data) ==
    AssetSave([id |-> id,
               status |-> "active",
               group |-> data.group,
               initial_cost |-> data.initial_cost,
               residual_value |-> data.residual_value,
               incoming_depreciation |-> data.incoming_depreciation,
               current_book_value |-> data.initial_cost,
               accumulated_depreciation |-> 0,
               depreciation_method |-> data.depreciation_method,
               useful_life_months |-> data.useful_life_months,
               total_production_capacity |-> data.total_production_capacity,
               commissioning_date |-> data.commissioning_date,
               depreciation_start_date |-> data.depreciation_start_date,
               disposal_date |-> NoDate])

\* ------------------------------------------------------------ table helpers
Insert(table, row) == table (+) SetToBag({row})
Rows(table) == BagToSet(table)
Count(table, row) == CopiesIn(row, table)

RECURSIVE SumAmounts(_, _)
SumAmounts(table, rows) ==
    IF rows = {} THEN 0
    ELSE LET r == CHOOSE x \in rows : TRUE
         IN  r.amount * Count(table, r) + SumAmounts(table, rows \ {r})

RecordsOf(table, a) == {r \in Rows(table) : r.asset = a}
RecordsFor(table, a, p) ==
    {r \in Rows(table) : /\ r.asset = a
                         /\ r.period_year = period_year(p)
                         /\ r.period_month = period_month(p)}
NumRecordsFor(table, a, p) ==
    LET rs == RecordsFor(table, a, p)
    IN  IF rs = {} THEN 0 ELSE BagCardinality([r \in rs |-> Count(table, r)])

\* a batch that skips the exists() check
RecordExists_Never(table, a, p) == FALSE

\* DepreciationRecord.objects.filter(asset, period_year, period_month).exists()
RecordExists(table, a, p) == RecordsFor(table, a, p) # {}

Idle == [pc |-> "idle"]
NoResponse == [op |-> "none"]

\* ----------------------------------------------------------- EntryGenerator
\* _create_entry: AccountEntry.objects.create(...); objects.create runs no
\* field validator, so any amount is stored.
create_entry(entries, entry_type, date, debit_account, credit_account, amount, asset_id) ==
    Insert(entries, [entry_type |-> entry_type, date |-> date,
                     debit_account |-> debit_account,
                     credit_account |-> credit_account,
                     amount |-> amount, asset |-> asset_id])

\* expense_account is never passed by a caller: it is always the default '92'
create_depreciation_entries(entries, asset, record) ==
    create_entry(entries, "depreciation",
                 (record.period_year - 2024) * 12 + (record.period_month - 1),
                 "92", asset.group.depreciation_account, record.amount, asset.id)

\* ------------------------------------------------------ PeriodAccrualProtocol
\* a storage layer without the unique constraint
UniqueViolation_Unenforced(records, row) == FALSE

\* The unique_together of DepreciationRecord.Meta: the storage layer refuses a
\* second row for (asset, period_year, period_month) with an IntegrityError.
UniqueViolation(records, row) ==
    \E r \in Rows(records) : /\ r.asset = row.asset
                             /\ r.period_year = row.period_year
                             /\ r.period_month = row.period_month

\* an update that forgets accumulated_depreciation
Accrue_SkipAccumulated(asset, amount) ==
    [asset EXCEPT !.current_book_value = asset.current_book_value - amount]

\* asset.accumulated_depreciation += amount; asset.current_book_value -= amount
Accrue(asset, amount) ==
    [asset EXCEPT !.accumulated_depreciation = asset.accumulated_depreciation + amount,
                  !.current_book_value = asset.current_book_value - amount]

\* `with transaction.atomic():` a failure inside the block rolls the storage
\* back to what it was on entry.
AtomicCommit(before, work, failed) == IF failed THEN before ELSE work

NoFault == "none"
\* where a storage failure may hit the unit: DepreciationRecord.objects.create,
\* asset.save or AccountEntry.objects.create
FaultSteps == {"record", "asset", "entry"}

\* The body of `with transaction.atomic()` for one asset.  st holds the
\* storage (assets, records, entries) and the batch's counters; asset is the
\* in-memory object of the queryset.
AccrualUnit(st, asset, p, amount, prod_vol, is_posted, fault) ==
    LET record == [asset |-> asset.id,
                   period_year |-> period_year(p),
                   period_month |-> period_month(p),
                   depreciation_method |-> asset.depreciation_method,
                   amount |-> amount,
                   book_value_before |-> asset.current_book_value,
                   book_value_after |-> asset.current_book_value - amount,
                   production_volume |-> prod_vol,
                   is_posted |-> is_posted]
        fail1 == fault = "record" \/ UniqueViolation(st.records, record)
        w1 == [st EXCEPT !.records = Insert(st.records, record)]
        saved == AssetSave(Accrue(asset, amount))
        fail2 == fail1 \/ fault = "asset"
        w2 == IF fail1 THEN w1 ELSE [w1 EXCEPT !.assets[asset.id] = saved]
        fail3 == fail2 \/ fault = "entry"
        w3 == IF fail2 THEN w2
              ELSE [w2 EXCEPT !.entries = create_depreciation_entries(w2.entries, saved, record)]
        done == AtomicCommit(st, w3, fail3)
    IN  IF fail3
        THEN [done EXCEPT !.raised = TRUE]
        ELSE [done EXCEPT !.created = st.created + 1]

\* One pass of `for asset in qs:`.  An exception leaves the loop (neither
\* handler catches anything), so nothing runs once st.raised is set.
AccrueAsset(st, asset, p, prod_vol, is_posted, now, fault) ==
    IF st.raised THEN st
    ELSE IF RecordExists(st.records, asset.id, p)
         THEN [st EXCEPT !.errors = Append(st.errors, asset.id)]
         ELSE LET amount == calculate_monthly_depreciation(asset, prod_vol, now)
              IN  IF amount <= 0 THEN st
                  ELSE AccrualUnit(st, asset, p, amount, prod_vol, is_posted, fault)

\* Asset.objects.filter(status=ACTIVE) [.filter(id__in=asset_ids)], in the
\* order of Meta.ordering; asset_ids = {} is the falsy empty list.
RECURSIVE Ascending(_)
Ascending(ids) ==
    IF ids = {} THEN <<>>
    ELSE LET m == CHOOSE x \in ids : \A y \in ids : x <= y
         IN  <<m>> \o Ascending(ids \ {m})

\* a queryset without the status filter
ActiveQuerySet_AnyStatus(rows, asset_ids) ==
    Ascending({a \in DOMAIN rows : asset_ids = {} \/ a \in asset_ids})

ActiveQuerySet(rows, asset_ids) ==
    Ascending({a \in DOMAIN rows :
                  /\ rows[a].status = "active"
                  /\ (asset_ids = {} \/ a \in asset_ids)})

\* the loop over the evaluated queryset qs (rows read when the loop starts);
\* faults[a] is the storage failure, if any, that hits asset a's unit
RECURSIVE AccrueLoop(_, _, _, _, _, _, _, _)
AccrueLoop(st, rows, qs, p, vol, is_posted, now, faults) ==
    IF qs = <<>> THEN st
    ELSE AccrueLoop(AccrueAsset(st, rows[Head(qs)], p, vol[Head(qs)], is_posted, now, faults[Head(qs)]),
                    rows, Tail(qs), p, vol, is_posted, now, faults)

BatchStart == [assets |-> assets, records |-> depreciation_records,
               entries |-> account_entries,
               created |-> 0, errors |-> <<>>, raised |-> FALSE]

NoFaults == [a \in AssetIds |-> NoFault]

\* production_volumes of the request: the caller reports a volume for the
\* assets depreciated by production and none (0) for the others
ProductionVolumes(vol) ==
    [a \in DOMAIN assets |->
        IF assets[a].depreciation_method = "production" THEN vol ELSE 0]

\* the requests a caller can make, told apart by what they select and report
VolumeChoices == {ProductionVolumes(vol) : vol \in Volumes}
QuerySets == {ActiveQuerySet(assets, asset_ids) : asset_ids \in SUBSET DOMAIN assets}

\* what the caller sees: {'created': ..., 'errors': [...]}, or the exception
\* that left the handler (raised); period, selected and volumes recall the
\* request
BatchResponse(op, p, qs, vol, st) ==
    [op |-> op, period |-> p, selected |-> qs, volumes |-> vol,
     created |-> st.created, errors |-> st.errors, raised |-> st.raised]

RunBatch(op, p, qs, vol, is_posted, faults) ==
    LET st == AccrueLoop(BatchStart, assets, qs, p, vol, is_posted, today, faults)
    IN  /\ assets' = st.assets
        /\ depreciation_records' = st.records
        /\ account_entries' = st.entries
        /\ last' = BatchResponse(op, p, qs, vol, st)
        /\ UNCHANGED <<disposals, revaluations, improvements, today, registers, procs>>

\* DepreciationRecordViewSet.calculate (POST /depreciation/calculate/)
Calculate ==
    \E p \in Periods, qs \in QuerySets, vol \in VolumeChoices :
        RunBatch("calculate", p, qs, vol, FALSE, NoFaults)

\* a scheduled run that is handed production volumes
AutoCalculate_WithVolumes ==
    \E p \in Periods, vol \in VolumeChoices :
        RunBatch("auto", p, ActiveQuerySet(assets, {}), vol, TRUE, NoFaults)

\* tasks.auto_calculate_depreciation(year, month)
AutoCalculate ==
    \E p \in Periods :
        RunBatch("auto", p, ActiveQuerySet(assets, {}), ProductionVolumes(0), TRUE, NoFaults)

\* a storage failure may hit the atomic unit of any asset of the batch
FaultChoices == [DOMAIN assets -> {NoFault} \cup FaultSteps]

CalculateUnderFaults ==
    \E p \in Periods, qs \in QuerySets, vol \in VolumeChoices :
      \E faults \in FaultChoices :
        RunBatch("calculate", p, qs, vol, FALSE, faults)

AutoCalculateUnderFaults ==
    \E p \in Periods, faults \in FaultChoices :
        RunBatch("auto", p, ActiveQuerySet(assets, {}), ProductionVolumes(0), TRUE, faults)

\* ------------------------------------------------------ LifecycleEventHandlers
RowsOfAsset(table, a) == {r \in Rows(table) : r.asset = a}

\* entries that recognise income for any disposal_type
create_disposal_entries_AnyType(entries, asset, disposal) ==
    LET account_oz == asset.group.account_number
        account_depreciation == asset.group.depreciation_account
        e1 == IF disposal.accumulated_depreciation_at_disposal > 0
              THEN create_entry(entries, "disposal", disposal.document_date,
                                account_depreciation, account_oz,
                                disposal.accumulated_depreciation_at_disposal, asset.id)
              ELSE entries
        e2 == IF disposal.book_value_at_disposal > 0
              THEN create_entry(e1, "disposal", disposal.document_date,
                                "976", account_oz,
                                disposal.book_value_at_disposal, asset.id)
              ELSE e1
    IN  IF disposal.sale_amount > 0
        THEN create_entry(e2, "disposal", disposal.document_date,
                          "377", "746", disposal.sale_amount, asset.id)
        ELSE e2

create_disposal_entries(entries, asset, disposal) ==
    LET account_oz == asset.group.account_number
        account_depreciation == asset.group.depreciation_account
        e1 == IF disposal.accumulated_depreciation_at_disposal > 0
              THEN create_entry(entries, "disposal", disposal.document_date,
                                account_depreciation, account_oz,
                                disposal.accumulated_depreciation_at_disposal, asset.id)
              ELSE entries
        e2 == IF disposal.book_value_at_disposal > 0
              THEN create_entry(e1, "disposal", disposal.document_date,
                                "976", account_oz,
                                disposal.book_value_at_disposal, asset.id)
              ELSE e1
    IN  IF disposal.disposal_type = "sale" /\ disposal.sale_amount > 0
        THEN create_entry(e2, "disposal", disposal.document_date,
                          "377", "746", disposal.sale_amount, asset.id)
        ELSE e2

\* AssetDisposalSerializer.validate_asset (on create)
DisposalValid(table, a) == RowsOfAsset(table, a) = {}

\* the storage after AssetDisposalViewSet.perform_create; asset is the row
\* the serializer read while validating
DisposalEffect(db, asset, disposal_type, sale_amount, document_date) ==
    LET disposal == [asset |-> asset.id,
                     disposal_type |-> disposal_type,
                     document_date |-> document_date,
                     sale_amount |-> sale_amount,
                     book_value_at_disposal |-> asset.current_book_value,
                     accumulated_depreciation_at_disposal |-> asset.accumulated_depreciation]
        saved == AssetSave([asset EXCEPT !.status = "disposed",
                                         !.disposal_date = document_date])
    IN  [db EXCEPT !.disposals = Insert(db.disposals, disposal),
                   !.assets[asset.id] = saved,
                   !.entries = create_disposal_entries(db.entries, saved, disposal)]

\* quantize(Decimal('0.01')) with the default context: ROUND_HALF_EVEN
RoundHalfEven(num, den) ==
    LET q == num \div den
        r == num % den
    IN  IF 2 * r > den THEN q + 1
        ELSE IF 2 * r < den THEN q
        ELSE IF q % 2 = 0 THEN q ELSE q + 1

\* entries whose direction follows the sign of revaluation_amount
create_revaluation_entries_BySign(entries, asset, revaluation) ==
    LET account_oz == asset.group.account_number
        amount == Abs(revaluation.revaluation_amount)
    IN  IF revaluation.revaluation_amount > 0
        THEN create_entry(entries, "revaluation", revaluation.date,
                          account_oz, "411", amount, asset.id)
        ELSE create_entry(entries, "revaluation", revaluation.date,
                          "975", account_oz, amount, asset.id)

create_revaluation_entries(entries, asset, revaluation) ==
    LET account_oz == asset.group.account_number
        amount == Abs(revaluation.revaluation_amount)
    IN  IF revaluation.revaluation_type = "upward"
        THEN create_entry(entries, "revaluation", revaluation.date,
                          account_oz, "411", amount, asset.id)
        ELSE IF revaluation.revaluation_type = "downward"
        THEN create_entry(entries, "revaluation", revaluation.date,
                          "975", account_oz, amount, asset.id)
        ELSE entries

\* the AssetRevaluation row that perform_create computes from the asset
RevaluationRow(asset, fair_value, date) ==
    LET old_initial == asset.initial_cost
        old_depr == asset.accumulated_depreciation
        old_book == asset.current_book_value
        \* index = fair_value / old_book if old_book > 0 else 1
        new_initial == IF old_book > 0
                       THEN RoundHalfEven(old_initial * fair_value, old_book)
                       ELSE old_initial
        new_depr == IF old_book > 0
                    THEN RoundHalfEven(old_depr * fair_value, old_book)
                    ELSE old_depr
        new_book == new_initial - new_depr
    IN  [asset |-> asset.id,
         revaluation_type |-> IF fair_value > old_book THEN "upward" ELSE "downward",
         date |-> date,
         fair_value |-> fair_value,
         old_initial_cost |-> old_initial,
         old_depreciation |-> old_depr,
         old_book_value |-> old_book,
         new_initial_cost |-> new_initial,
         new_depreciation |-> new_depr,
         new_book_value |-> new_book,
         revaluation_amount |-> new_book - old_book]

\* AssetRevaluationSerializer has no validate_asset: any asset is accepted
RevaluationValid(asset) == TRUE

RevaluationEffect(db, asset, fair_value, date) ==
    LET row == RevaluationRow(asset, fair_value, date)
        saved == AssetSave([asset EXCEPT
                     !.initial_cost = row.new_initial_cost,
                     !.accumulated_depreciation = row.new_depreciation,
                     !.current_book_value = row.new_book_value])
    IN  [db EXCEPT !.revaluations = Insert(db.revaluations, row),
                   !.assets[asset.id] = saved,
                   !.entries = create_revaluation_entries(db.entries, saved, row)]

create_improvement_entries(entries, asset, improvement) ==
    IF improvement.increases_value
    THEN create_entry(entries, "improvement", improvement.date,
                      asset.group.account_number, "152", improvement.amount, asset.id)
    ELSE create_entry(entries, "improvement", improvement.date,
                      improvement.expense_account, "631", improvement.amount, asset.id)

\* AssetImprovementSerializer has no validate_asset: any asset is accepted
ImprovementValid(asset) == TRUE

\* a handler that capitalizes every improvement, repairs included
ImprovementEffect_AlwaysCapitalize(db, asset, amount, increases_value, date) ==
    LET row == [asset |-> asset.id, date |-> date, amount |-> amount,
                increases_value |-> increases_value, expense_account |-> "91"]
        saved == AssetSave([asset EXCEPT
                     !.initial_cost = asset.initial_cost + amount,
                     !.current_book_value = asset.current_book_value + amount])
    IN  [db EXCEPT !.improvements = Insert(db.improvements, row),
                   !.assets[asset.id] = saved,
                   !.entries = create_improvement_entries(db.entries, saved, row)]

ImprovementEffect(db, asset, amount, increases_value, date) ==
    LET row == [asset |-> asset.id, date |-> date, amount |-> amount,
                increases_value |-> increases_value, expense_account |-> "91"]
        saved == IF increases_value
                 THEN AssetSave([asset EXCEPT
                          !.initial_cost = asset.initial_cost + amount,
                          !.current_book_value = asset.current_book_value + amount])
                 ELSE asset
    IN  [db EXCEPT !.improvements = Insert(db.improvements, row),
                   !.assets[asset.id] = IF increases_value THEN saved ELSE db.assets[asset.id],
                   !.entries = create_improvement_entries(db.entries, saved, row)]

Storage == [assets |-> assets, records |-> depreciation_records,
            entries |-> account_entries, disposals |-> disposals,
            revaluations |-> revaluations, improvements |-> improvements]

Store(db) ==
    /\ assets' = db.assets
    /\ depreciation_records' = db.records
    /\ account_entries' = db.entries
    /\ disposals' = db.disposals
    /\ revaluations' = db.revaluations
    /\ improvements' = db.improvements

LifecycleResponse(op, a, rejected) == [op |-> op, asset |-> a, rejected |-> rejected]

\* POST /disposals/ : validation, then perform_create
DisposalCreate ==
    \E a \in DOMAIN assets, disposal_type \in DisposalTypes, sale_amount \in SaleAmounts :
        /\ IF DisposalValid(disposals, a)
           THEN Store(DisposalEffect(Storage, assets[a], disposal_type, sale_amount, DocumentDate))
           ELSE UNCHANGED tables
        /\ last' = LifecycleResponse("disposal", a, ~DisposalValid(disposals, a))
        /\ UNCHANGED <<today, registers, procs>>

\* POST /revaluations/ ; fair_value has MinValueValidator(0.01)
RevaluationCreate ==
    \E a \in DOMAIN assets :
      \E fair_value \in FairValues \cup {assets[a].current_book_value} :
        /\ fair_value >= 1
        /\ BagCardinality(revaluations) < MaxRevaluations
        /\ IF RevaluationValid(assets[a])
           THEN Store(RevaluationEffect(Storage, assets[a], fair_value, DocumentDate))
           ELSE UNCHANGED tables
        /\ last' = LifecycleResponse("revaluation", a, ~RevaluationValid(assets[a]))
        /\ UNCHANGED <<today, registers, procs>>

\* POST /improvements/ ; amount has MinValueValidator(0.01)
ImprovementCreate ==
    \E a \in DOMAIN assets, amount \in ImprovementAmounts, increases_value \in BOOLEAN :
        /\ BagCardinality(improvements) < MaxImprovements
        /\ IF ImprovementValid(assets[a])
           THEN Store(ImprovementEffect(Storage, assets[a], amount, increases_value, DocumentDate))
           ELSE UNCHANGED tables
        /\ last' = LifecycleResponse("improvement", a, ~ImprovementValid(assets[a]))
        /\ UNCHANGED <<today, registers, procs>>

\* time passes between requests
Tick ==
    /\ today < MaxToday
    /\ today' = today + 1
    /\ UNCHANGED <<tables, last, procs, registers>>

\* the tables other than Asset are empty after construction
InitRest ==
    /\ depreciation_records = EmptyBag
    /\ account_entries = EmptyBag
    /\ disposals = EmptyBag
    /\ revaluations = EmptyBag
    /\ improvements = EmptyBag
    /\ today = 0
    /\ inventory = NoInventory
    /\ organizations = <<>>
    /\ last = NoResponse
    /\ procs = <<>>

\* one asset, created from any of the inputs
Init ==
    /\ \E d \in AssetInputs : assets = [a \in {1} |-> AssetCreate(a, d)]
    /\ InitRest

\* several assets: asset 1 from any input, the others from CompanionInputs
InitBatch ==
    /\ \E data \in [AssetIds -> AssetInputs] :
           /\ \A a \in AssetIds \ {1} : data[a] \in CompanionInputs
           /\ assets = [a \in AssetIds |-> AssetCreate(a, data[a])]
    /\ InitRest

Next ==
    \/ Calculate
    \/ AutoCalculate
    \/ DisposalCreate
    \/ RevaluationCreate
    \/ ImprovementCreate
    \/ Tick

\* the request handlers, one request at a time, on one asset
Spec == Init /\ [][Next]_vars

NextBatch ==
    \/ Calculate
    \/ AutoCalculate
    \/ Tick

\* accrual batches, one at a time, over several assets
SpecBatch == InitBatch /\ [][NextBatch]_vars

NextFaults ==
    \/ CalculateUnderFaults
    \/ AutoCalculateUnderFaults

\* accrual batches over several assets on a storage that may fail
SpecFaults == InitBatch /\ [][NextFaults]_vars

\* ------------------------------------------------------ concurrent requests
\* Two requests in flight (two web workers, or a web worker and the celery
\* task).  A batch is cut where its code touches the storage: the queryset
\* is evaluated when the loop starts, each pass reads the records (exists())
\* and each atomic unit commits on its own.  The asset object a pass works on
\* is the row read with the queryset; asset.save() writes all its fields.
Workers == {1, 2}

\* the batch of worker w ends: its response (or its exception) reaches the caller
BatchReturn(w, st) ==
    /\ last' = BatchResponse(procs[w].op, procs[w].period, procs[w].selected,
                             procs[w].volumes, st)
    /\ procs' = [procs EXCEPT ![w] = Idle]

\* the request arrives and `for asset in qs` evaluates the queryset
BatchBegin(w) ==
    /\ procs[w].pc = "idle"
    /\ \E op \in {"calculate", "auto"}, p \in Periods,
          qs \in QuerySets, vol \in VolumeChoices :
         /\ op = "auto" => (qs = ActiveQuerySet(assets, {}) /\ vol = ProductionVolumes(0))
         /\ procs' = [procs EXCEPT ![w] =
                [pc |-> "loop", op |-> op, period |-> p,
                 rows |-> assets,
                 selected |-> qs,
                 qs |-> qs,
                 volumes |-> vol,
                 is_posted |-> (op = "auto"),
                 amount |-> 0, created |-> 0, errors |-> <<>>]]
    /\ UNCHANGED <<tables, today, registers, last>>

\* one pass up to `with transaction.atomic()`: the exists() check and the
\* amount, or the end of the loop
BatchCheck(w) ==
    /\ procs[w].pc = "loop"
    /\ LET me == procs[w]
       IN  IF me.qs = <<>>
           THEN BatchReturn(w, [created |-> me.created, errors |-> me.errors,
                                raised |-> FALSE])
           ELSE LET asset == me.rows[Head(me.qs)]
                    amount == calculate_monthly_depreciation(
                                  asset, me.volumes[asset.id], today)
                IN  /\ procs' = [procs EXCEPT ![w] =
                          IF RecordExists(depreciation_records, asset.id, me.period)
                          THEN [me EXCEPT !.errors = Append(me.errors, asset.id),
                                          !.qs = Tail(me.qs)]
                          ELSE IF amount <= 0
                          THEN [me EXCEPT !.qs = Tail(me.qs)]
                          ELSE [me EXCEPT !.pc = "unit", !.amount = amount]]
                    /\ UNCHANGED last
    /\ UNCHANGED <<tables, today, registers>>

\* the atomic unit of the pass commits, or fails and takes the batch with it
BatchCommit(w) ==
    /\ procs[w].pc = "unit"
    /\ LET me == procs[w]
           asset == me.rows[Head(me.qs)]
           st == AccrualUnit([assets |-> assets, records |-> depreciation_records,
                              entries |-> account_entries,
                              created |-> me.created, errors |-> me.errors,
                              raised |-> FALSE],
                             asset, me.period, me.amount, me.volumes[asset.id],
                             me.is_posted, NoFault)
       IN  /\ assets' = st.assets
           /\ depreciation_records' = st.records
           /\ account_entries' = st.entries
           /\ IF st.raised
              THEN BatchReturn(w, st)
              ELSE /\ procs' = [procs EXCEPT ![w] =
                          [me EXCEPT !.pc = "loop", !.qs = Tail(me.qs),
                                     !.created = st.created]]
                   /\ UNCHANGED last
    /\ UNCHANGED <<disposals, revaluations, improvements, today, registers>>

InitConc ==
    /\ \E d \in AssetInputs : assets = [a \in {1} |-> AssetCreate(a, d)]
    /\ depreciation_records = EmptyBag
    /\ account_entries = EmptyBag
    /\ disposals = EmptyBag
    /\ revaluations = EmptyBag
    /\ improvements = EmptyBag
    /\ today = 0
    /\ inventory = NoInventory
    /\ organizations = <<>>
    /\ last = NoResponse
    /\ procs = [w \in Workers |-> Idle]

NextConc ==
    \/ \E w \in Workers : BatchBegin(w)
    \/ \E w \in Workers : BatchCheck(w)
    \/ \E w \in Workers : BatchCommit(w)

\* two accrual batches in flight on one asset
SpecConc == InitConc /\ [][NextConc]_vars

NextRace ==
    \/ BatchBegin(1)
    \/ BatchCheck(1)
    \/ BatchCommit(1)
    \/ RevaluationCreate
    \/ ImprovementCreate

\* an accrual batch in flight while revaluations and improvements are posted
SpecRace == InitConc /\ [][NextRace]_vars

NextDisposalRace ==
    \/ BatchBegin(1)
    \/ BatchCheck(1)
    \/ BatchCommit(1)
    \/ DisposalCreate

\* an accrual batch in flight while a disposal is posted
SpecDisposalRace == InitConc /\ [][NextDisposalRace]_vars

\* ------------------------------------------------- generic record endpoints
\* DepreciationRecordViewSet and AccountEntryViewSet are ModelViewSets: next
\* to calculate and journal the router serves the inherited create, update,
\* partial_update and destroy.  The serializers expose every field
\* (fields = '__all__') and none of them touches the asset.
Remove(table, row) == table (-) SetToBag({row})

\* the amount a caller writes into a record or an entry
EditedAmounts == {100}

\* POST /depreciation/ ; the serializer's UniqueTogetherValidator turns a
\* second row for (asset, period_year, period_month) into a validation error
DepreciationRecordCreate ==
    \E a \in DOMAIN assets, p \in Periods, amount \in EditedAmounts :
        LET record == [asset |-> a,
                       period_year |-> period_year(p),
                       period_month |-> period_month(p),
                       depreciation_method |-> assets[a].depreciation_method,
                       amount |-> amount,
                       book_value_before |-> assets[a].current_book_value,
                       book_value_after |-> assets[a].current_book_value - amount,
                       production_volume |-> 0,
                       is_posted |-> FALSE]
            rejected == UniqueViolation(depreciation_records, record)
        IN  /\ depreciation_records' =
                   IF rejected THEN depreciation_records
                   ELSE Insert(depreciation_records, record)
            /\ last' = LifecycleResponse("record_create", a, rejected)
            /\ UNCHANGED <<assets, account_entries, disposals, revaluations,
                           improvements, today, registers, procs>>

\* PATCH /depreciation/{id}/ with a new amount
DepreciationRecordUpdate ==
    \E r \in Rows(depreciation_records), amount \in EditedAmounts :
        /\ depreciation_records' =
               Insert(Remove(depreciation_records, r), [r EXCEPT !.amount = amount])
        /\ last' = LifecycleResponse("record_update", r.asset, FALSE)
        /\ UNCHANGED <<assets, account_entries, disposals, revaluations,
                       improvements, today, registers, procs>>

\* DELETE /depreciation/{id}/
DepreciationRecordDestroy ==
    \E r \in Rows(depreciation_records) :
        /\ depreciation_records' = Remove(depreciation_records, r)
        /\ last' = LifecycleResponse("record_destroy", r.asset, FALSE)
        /\ UNCHANGED <<assets, account_entries, disposals, revaluations,
                       improvements, today, registers, procs>>

\* PATCH /entries/{id}/ with a new amount
AccountEntryUpdate ==
    \E e \in Rows(account_entries), amount \in EditedAmounts :
        /\ account_entries' =
               Insert(Remove(account_entries, e), [e EXCEPT !.amount = amount])
        /\ last' = LifecycleResponse("entry_update", e.asset, FALSE)
        /\ UNCHANGED <<assets, depreciation_records, disposals, revaluations,
                       improvements, today, registers, procs>>

\* DELETE /entries/{id}/
AccountEntryDestroy ==
    \E e \in Rows(account_entries) :
        /\ account_entries' = Remove(account_entries, e)
        /\ last' = LifecycleResponse("entry_destroy", e.asset, FALSE)
        /\ UNCHANGED <<assets, depreciation_records, disposals, revaluations,
                       improvements, today, registers, procs>>

NextHistory ==
    \/ Calculate
    \/ AutoCalculate
    \/ DepreciationRecordCreate
    \/ DepreciationRecordUpdate
    \/ DepreciationRecordDestroy
    \/ AccountEntryUpdate
    \/ AccountEntryDestroy

\* a deleted period can be accrued again: the assets here reach a positive
\* residual_value within their short life, which ends the accruals
HistoryInputs ==
    {d \in AssetInputs : d.residual_value > 0 /\ d.useful_life_months <= MaxPeriod}

InitHistory ==
    /\ \E d \in HistoryInputs : assets = [a \in {1} |-> AssetCreate(a, d)]
    /\ InitRest

\* the accrual batches and the generic endpoints of the two history tables
SpecHistory == InitHistory /\ [][NextHistory]_vars

\* ------------------------------------------------------- asset requests
\* POST /items/ and PATCH /items/{id}/ go through AssetDetailSerializer: the
\* field validators, then validate().  A ModelSerializer never calls
\* Model.clean(), and neither perform_create nor Asset.save calls full_clean().
RequestAmounts == {0, 600, 700}
RequestDates == {0, 1}

AssetRequests ==
    {[d EXCEPT !.residual_value = r, !.incoming_depreciation = i,
               !.depreciation_start_date = s, !.commissioning_date = 1] :
        d \in CompanionInputs, r \in RequestAmounts, i \in RequestAmounts,
        s \in RequestDates}

\* MinValueValidator on initial_cost, residual_value, incoming_depreciation
FieldsValid(data) ==
    /\ data.initial_cost >= 1
    /\ data.residual_value >= 0
    /\ data.incoming_depreciation >= 0

\* AssetDetailSerializer.validate on the merged initial_cost / incoming_depreciation
SerializerValid(data) ==
    ~(data.incoming_depreciation # 0 /\ data.initial_cost # 0
      /\ data.incoming_depreciation > data.initial_cost)

AssetResponse(op, data, rejected) == [op |-> op, data |-> data, rejected |-> rejected]

\* POST /items/
AssetPost ==
    \E data \in AssetRequests :
        LET free == AssetIds \ DOMAIN assets
            id == CHOOSE x \in free : \A y \in free : x <= y
            accepted == FieldsValid(data) /\ SerializerValid(data)
        IN  /\ free # {}
            /\ assets' = IF accepted
                         THEN [a \in DOMAIN assets \cup {id} |->
                                  IF a = id THEN AssetCreate(id, data) ELSE assets[a]]
                         ELSE assets
            /\ last' = AssetResponse("asset_create", data, ~accepted)
            /\ UNCHANGED <<depreciation_records, account_entries, disposals,
                           revaluations, improvements, today, registers, procs>>

\* the one field a PATCH carries
PatchedRows(asset) ==
    {[asset EXCEPT !.residual_value = v] : v \in RequestAmounts}
    \cup {[asset EXCEPT !.incoming_depreciation = v] : v \in RequestAmounts}
    \cup {[asset EXCEPT !.depreciation_start_date = v] : v \in RequestDates}

\* PATCH /items/{id}/ : ModelSerializer.update sets the field and saves
AssetPatch ==
    \E a \in DOMAIN assets :
      \E row \in PatchedRows(assets[a]) :
        LET accepted == FieldsValid(row) /\ SerializerValid(row)
        IN  /\ assets' = IF accepted THEN [assets EXCEPT ![a] = AssetSave(row)]
                         ELSE assets
            /\ last' = AssetResponse("asset_update", row, ~accepted)
            /\ UNCHANGED <<depreciation_records, account_entries, disposals,
                           revaluations, improvements, today, registers, procs>>

InitAssets ==
    /\ assets = <<>>
    /\ InitRest

NextAssets ==
    \/ AssetPost
    \/ AssetPatch

\* the Asset table filled and edited through the request layer
SpecAssets == InitAssets /\ [][NextAssets]_vars

\* ------------------------------------------------------------------ claims
NoRows(table, a) == RowsOfAsset(table, a) = {}

\* a DepreciationRecord of asset a is created in this step
Accrued(a) ==
    \E r \in RecordsOf(depreciation_records', a) :
        Count(depreciation_records', r) > Count(depreciation_records, r)

\* a step of Calculate or AutoCalculate: a batch answered and nothing else moved
BatchStep ==
    /\ last'.op \in {"calculate", "auto"}
    /\ UNCHANGED <<disposals, revaluations, improvements, today, registers, procs>>

\* C1 (as claimed): an asset that was never revalued, improved or disposed
\* satisfies current_book_value = initial_cost - incoming_depreciation -
\* accumulated_depreciation after any number of accruals.
C1_Conservation ==
    \A a \in DOMAIN assets :
        (NoRows(revaluations, a) /\ NoRows(improvements, a) /\ NoRows(disposals, a))
        => assets[a].current_book_value =
               assets[a].initial_cost - assets[a].incoming_depreciation
                 - assets[a].accumulated_depreciation

\* C2: without a revaluation, accumulated_depreciation is the sum of the
\* amounts of the asset's DepreciationRecords.
C2_AccumulatedIsRecordSum ==
    \A a \in DOMAIN assets :
        NoRows(revaluations, a)
        => assets[a].accumulated_depreciation =
               SumAmounts(depreciation_records, RecordsOf(depreciation_records, a))

C2_Witness ==
    \E a \in DOMAIN assets :
        /\ NoRows(revaluations, a)
        /\ Cardinality(RecordsOf(depreciation_records, a)) >= 2
        /\ assets[a].accumulated_depreciation > 0

C4_Idempotent ==
    [][BatchStep =>
          \A a \in DOMAIN assets :
              (/\ assets[a].status = "active"
               /\ \E i \in 1..Len(last'.selected) : last'.selected[i] = a
               /\ NumRecordsFor(depreciation_records, a, last'.period) >= 1)
              => /\ NumRecordsFor(depreciation_records', a, last'.period) = 1
                 /\ \E i \in 1..Len(last'.errors) : last'.errors[i] = a
                 /\ ~last'.raised
                 /\ assets'[a] = assets[a]
                 /\ RowsOfAsset(account_entries', a) = RowsOfAsset(account_entries, a)
                 /\ \A e \in RowsOfAsset(account_entries, a) :
                        Count(account_entries', e) = Count(account_entries, e)]_vars

C4_Witness ==
    /\ last.op \in {"calculate", "auto"}
    /\ \E i \in 1..Len(last.errors) :
           /\ NumRecordsFor(depreciation_records, last.errors[i], last.period) = 1
           /\ assets[last.errors[i]].accumulated_depreciation > 0

\* C9: a disposed asset gets no DepreciationRecord from any later batch, and
\* a further disposal request for it is rejected and changes no table.
C9_DisposalTerminal ==
    [][\A a \in DOMAIN assets :
          assets[a].status = "disposed" =>
              /\ ~Accrued(a)
              /\ (last'.op = "disposal" /\ last'.asset = a /\ DisposalCreate)
                 => (last'.rejected /\ UNCHANGED tables)]_vars

C9_Witness ==
    /\ last.op \in {"calculate", "auto"}
    /\ last.selected = <<>>
    /\ \E a \in DOMAIN assets :
           /\ assets[a].status = "disposed"
           /\ \E d \in RowsOfAsset(disposals, a) : d.book_value_at_disposal > 0
           /\ NumRecordsFor(depreciation_records, a, last.period) = 0

\* C10 (as claimed): a revaluation or an improvement of a disposed asset is
\* rejected and changes no table.
C10_DisposedIsFrozen ==
    [][\A a \in DOMAIN assets :
          (/\ assets[a].status = "disposed"
           /\ last'.op \in {"revaluation", "improvement"}
           /\ last'.asset = a
           /\ RevaluationCreate \/ ImprovementCreate)
          => (last'.rejected /\ UNCHANGED tables)]_vars

\* the rows of asset a in a table are the same before and after the step
SameRows(before, after, a) ==
    /\ RowsOfAsset(after, a) = RowsOfAsset(before, a)
    /\ \A r \in RowsOfAsset(before, a) : Count(after, r) = Count(before, r)

\* the step added exactly the row r to the rows of asset a
AddedRow(before, after, a, r) ==
    /\ r.asset = a
    /\ RowsOfAsset(after, a) = RowsOfAsset(before, a) \cup {r}
    /\ \A x \in RowsOfAsset(after, a) :
           Count(after, x) = Count(before, x) + (IF x = r THEN 1 ELSE 0)

\* C5 (as claimed): a step either leaves an asset, its records and its entries
\* as they were, or adds one DepreciationRecord, moves the asset by the
\* record's amount (accumulated_depreciation up, current_book_value down) and
\* adds one depreciation entry of that amount, Dt expense / Kt the group's
\* depreciation account.
C5_AllOrNothing ==
    [][\A a \in DOMAIN assets :
          \/ /\ assets'[a] = assets[a]
             /\ SameRows(depreciation_records, depreciation_records', a)
             /\ SameRows(account_entries, account_entries', a)
          \/ \E r \in RecordsOf(depreciation_records', a) :
               /\ AddedRow(depreciation_records, depreciation_records', a, r)
               /\ r.amount > 0
               /\ assets'[a].accumulated_depreciation =
                      assets[a].accumulated_depreciation + r.amount
               /\ assets'[a].current_book_value =
                      assets[a].current_book_value - r.amount
               /\ \E e \in RowsOfAsset(account_entries', a) :
                    /\ AddedRow(account_entries, account_entries', a, e)
                    /\ e.entry_type = "depreciation"
                    /\ e.amount = r.amount
                    /\ e.debit_account = "92"
                    /\ e.credit_account = assets[a].group.depreciation_account]_vars

\* C6 (as claimed): a batch always returns its result, and every asset of its
\* queryset is either reported in the error list, or has its record for the
\* period afterwards, or had nothing to accrue.
C6_BatchContinues ==
    [][(CalculateUnderFaults \/ AutoCalculateUnderFaults) =>
          /\ ~last'.raised
          /\ \A i \in 1..Len(last'.selected) :
               LET a == last'.selected[i]
               IN  \/ \E j \in 1..Len(last'.errors) : last'.errors[j] = a
                   \/ NumRecordsFor(depreciation_records', a, last'.period) = 1
                   \/ calculate_monthly_depreciation(assets[a], last'.volumes[a], today) <= 0]_vars

\* depreciation entries of asset a dated in period p
NumDepreciationEntries(table, a, p) ==
    LET es == {e \in RowsOfAsset(table, a) :
                  e.entry_type = "depreciation" /\ e.date = p}
    IN  IF es = {} THEN 0 ELSE BagCardinality([e \in es |-> Count(table, e)])

\* C7: whatever the interleaving of the batches in flight, an (asset, period)
\* has at most one DepreciationRecord and at most one depreciation entry, and
\* a step changes an asset only together with the one new record of its
\* period, raising accumulated_depreciation and lowering current_book_value
\* by no more than that record's amount.
C7_AtMostOnePerPeriod ==
    /\ [](\A a \in DOMAIN assets, p \in Periods :
            /\ NumRecordsFor(depreciation_records, a, p) <= 1
            /\ NumDepreciationEntries(account_entries, a, p) <= 1)
    /\ [][\A a \in DOMAIN assets :
            assets'[a] # assets[a] =>
              \E r \in RecordsOf(depreciation_records', a) :
                /\ AddedRow(depreciation_records, depreciation_records', a, r)
                /\ assets'[a].accumulated_depreciation
                       - assets[a].accumulated_depreciation <= r.amount
                /\ assets[a].current_book_value
                       - assets'[a].current_book_value <= r.amount]_vars

\* C7 witness: both batches passed the exists() check for the same period,
\* one committed and the other lost the race at the storage layer
C7_Witness ==
    /\ last.op # "none"
    /\ last.raised
    /\ \E a \in DOMAIN assets :
         /\ NumRecordsFor(depreciation_records, a, last.period) = 1
         /\ NumDepreciationEntries(account_entries, a, last.period) = 1
         /\ assets[a].accumulated_depreciation > 0

\* C8 (as claimed): operations on one asset take effect one after the other,
\* so an accrual that commits adds its amount to the accumulated_depreciation
\* that is stored at that moment and leaves the stored initial_cost alone.
C8_NoLostUpdate ==
    [][\A a \in DOMAIN assets :
          \A r \in RecordsOf(depreciation_records', a) :
            AddedRow(depreciation_records, depreciation_records', a, r) =>
              /\ assets'[a].accumulated_depreciation =
                     assets[a].accumulated_depreciation + r.amount
              /\ assets'[a].initial_cost = assets[a].initial_cost]_vars

\* C11 (as claimed): a stored status of disposed stays disposed, and the
\* disposal_date stays set, whatever step comes next.
C11_DisposalOneWay ==
    [][\A a \in DOMAIN assets :
          assets[a].status = "disposed" =>
              /\ assets'[a].status = "disposed"
              /\ assets'[a].disposal_date # NoDate]_vars

\* C12 (as claimed): a revaluation to fair_value = current_book_value leaves
\* initial_cost, accumulated_depreciation and current_book_value as they were
\* and records revaluation_amount = 0 and new_book_value = old_book_value.
C12_RevaluationRoundTrip ==
    [][\A a \in DOMAIN assets :
          \A r \in RowsOfAsset(revaluations', a) :
            (/\ AddedRow(revaluations, revaluations', a, r)
             /\ r.fair_value = assets[a].current_book_value)
            => /\ assets'[a].initial_cost = assets[a].initial_cost
               /\ assets'[a].accumulated_depreciation = assets[a].accumulated_depreciation
               /\ assets'[a].current_book_value = assets[a].current_book_value
               /\ r.revaluation_amount = 0
               /\ r.new_book_value = r.old_book_value]_vars

Indicator(b) == IF b THEN 1 ELSE 0

\* copies of one disposal entry of asset a in a table
DisposalEntryCopies(table, a, date, debit_account, credit_account, amount) ==
    Count(table, [entry_type |-> "disposal", date |-> date,
                  debit_account |-> debit_account,
                  credit_account |-> credit_account,
                  amount |-> amount, asset |-> a])

\* C13: a disposal adds one entry per indicator that holds and no other:
\* accumulated_depreciation_at_disposal > 0 (Dt depreciation account, Kt asset
\* account), book_value_at_disposal > 0 (Dt 976, Kt asset account), and a sale
\* with sale_amount > 0 (Dt 377, Kt 746).
C13_DisposalEntryCount ==
    [][\A a \in DOMAIN assets :
          \A d \in RowsOfAsset(disposals', a) :
            AddedRow(disposals, disposals', a, d) =>
              LET has_depr == d.accumulated_depreciation_at_disposal > 0
                  has_book == d.book_value_at_disposal > 0
                  has_sale == d.disposal_type = "sale" /\ d.sale_amount > 0
                  oz == assets[a].group.account_number
                  depr == assets[a].group.depreciation_account
                  Added(debit, credit, amount) ==
                      DisposalEntryCopies(account_entries', a, d.document_date, debit, credit, amount)
                      - DisposalEntryCopies(account_entries, a, d.document_date, debit, credit, amount)
              IN  /\ BagCardinality(account_entries') - BagCardinality(account_entries)
                         = Indicator(has_depr) + Indicator(has_book) + Indicator(has_sale)
                  /\ Added(depr, oz, d.accumulated_depreciation_at_disposal) = Indicator(has_depr)
                  /\ Added("976", oz, d.book_value_at_disposal) = Indicator(has_book)
                  /\ Added("377", "746", d.sale_amount) = Indicator(has_sale)]_vars

\* a sale of a partly depreciated asset: three entries
C13_Witness ==
    \E d \in Rows(disposals) :
        /\ d.accumulated_depreciation_at_disposal > 0
        /\ d.book_value_at_disposal > 0
        /\ d.disposal_type = "sale"
        /\ d.sale_amount > 0
        /\ Cardinality({e \in RowsOfAsset(account_entries, d.asset) :
                            e.entry_type = "disposal"}) = 3

\* the class invariants of Asset.clean on the valuation fields
ValuationInvariants(asset) ==
    /\ asset.residual_value < asset.initial_cost
    /\ asset.incoming_depreciation <= asset.initial_cost

\* C14 (as claimed): a step applied to an asset that satisfies
\* residual_value < initial_cost and incoming_depreciation <= initial_cost
\* leaves it satisfying both.
C14_InvariantsPreserved ==
    [][\A a \in DOMAIN assets :
          ValuationInvariants(assets[a]) => ValuationInvariants(assets'[a])]_vars

\* every row of the table before the step is still there after it
RowsKept(before, after) ==
    \A r \in Rows(before) : Count(after, r) >= Count(before, r)

\* C15 (as claimed): no step takes away or rewrites a DepreciationRecord or
\* an AccountEntry, and a new DepreciationRecord comes with its amount added
\* to the asset's accumulated_depreciation.
C15_AppendOnly ==
    [][/\ RowsKept(depreciation_records, depreciation_records')
       /\ RowsKept(account_entries, account_entries')
       /\ \A a \in DOMAIN assets :
            \A r \in RecordsOf(depreciation_records', a) :
              Count(depreciation_records', r) > Count(depreciation_records, r)
              => assets'[a].accumulated_depreciation =
                     assets[a].accumulated_depreciation + r.amount]_vars

\* what Asset.clean refuses
CleanRefuses(data) ==
    \/ data.residual_value >= data.initial_cost
    \/ data.incoming_depreciation > data.initial_cost
    \/ data.depreciation_start_date < data.commissioning_date

\* C16 (as claimed): an asset request whose data has residual_value >=
\* initial_cost, incoming_depreciation > initial_cost or
\* depreciation_start_date < commissioning_date is answered with a validation
\* error and the Asset table stays as it was.
C16_AssetValidation ==
    [][(/\ last'.op \in {"asset_create", "asset_update"}
        /\ CleanRefuses(last'.data))
       => (last'.rejected /\ assets' = assets)]_vars

\* the fields of a DepreciationRecord the two batches are compared on
RecordView(r) ==
    [asset |-> r.asset, period_year |-> r.period_year,
     period_month |-> r.period_month,
     depreciation_method |-> r.depreciation_method, amount |-> r.amount,
     book_value_before |-> r.book_value_before,
     book_value_after |-> r.book_value_after]

RecordViews(table) == {RecordView(r) : r \in Rows(table)}

\* what calculate, called without asset_ids and without production_volumes,
\* makes of the current storage for period p
ManualRun(p) ==
    AccrueLoop(BatchStart, assets, ActiveQuerySet(assets, {}), p,
               ProductionVolumes(0), FALSE, today, NoFaults)

CostInputs == {0, 1, 18, 1000, 1200000, 1500000}
ResidualInputs == {0, 100}
IncomingInputs == {0, 200}
LifeInputs == {0 - 12, 0, 1, 7, 24, 60}
MonthsUsedInputs == {0, 5, 11, 12, 23, 24, 48, 59, 60, 72}

CalcArguments ==
    [op : {"arguments"}, initial_cost : CostInputs,
     residual_value : ResidualInputs, incoming_depreciation : IncomingInputs,
     useful_life_months : LifeInputs, months_used : MonthsUsedInputs,
     result : {0}]

InitCalc ==
    /\ assets = <<>>
    /\ depreciation_records = EmptyBag
    /\ account_entries = EmptyBag
    /\ disposals = EmptyBag
    /\ revaluations = EmptyBag
    /\ improvements = EmptyBag
    /\ today = 0
    /\ inventory = NoInventory
    /\ organizations = <<>>
    /\ procs = <<>>
    /\ last \in CalcArguments

StraightLineCall ==
    /\ last.op = "arguments"
    /\ last' = [last EXCEPT !.op = "calc_straight_line",
                            !.result = calc_straight_line(
                                last.initial_cost, last.residual_value,
                                last.useful_life_months,
                                last.incoming_depreciation)]
    /\ UNCHANGED <<assets, tables, today, registers, procs>>

CumulativeCall ==
    /\ last.op = "arguments"
    /\ last' = [last EXCEPT !.op = "calc_cumulative",
                            !.result = calc_cumulative(
                                last.initial_cost, last.residual_value,
                                last.useful_life_months, last.months_used,
                                last.incoming_depreciation)]
    /\ UNCHANGED <<assets, tables, today, registers, procs>>

NextCalc == StraightLineCall \/ CumulativeCall

SpecCalc == InitCalc /\ [][NextCalc]_vars

DepreciableAmount(call) ==
    call.initial_cost - call.residual_value - call.incoming_depreciation

\* C18: calc_straight_line returns 0 when useful_life_months <= 0 or the
\* depreciable amount is <= 0, and otherwise the kopeck amount nearest to
\* depreciable amount / useful_life_months, a half rounded up; 12000.00 over
\* 60 months with no residual value and no incoming depreciation gives 200.00.
C18_StraightLine ==
    last.op = "calc_straight_line" =>
        LET d == DepreciableAmount(last)
            m == last.useful_life_months
        IN  /\ (m <= 0 \/ d <= 0) => last.result = 0
            /\ (m > 0 /\ d > 0) =>
                  /\ 2 * m * last.result - m <= 2 * d
                  /\ 2 * d < 2 * m * last.result + m
            /\ (d = 1200000 /\ last.residual_value = 0 /\ m = 60
                  /\ last.incoming_depreciation = 0) => last.result = 20000

\* the call of the example has returned 200.00
C18_Witness ==
    /\ last.op = "calc_straight_line"
    /\ last.initial_cost = 1200000
    /\ last.residual_value = 0
    /\ last.incoming_depreciation = 0
    /\ last.useful_life_months = 60
    /\ last.result = 20000


\* useful_life_years of calc_cumulative
LifeYears(useful_life_months) ==
    IF useful_life_months \div 12 <= 0 THEN 1 ELSE useful_life_months \div 12

\* calc_cumulative on the arguments of a call, at another months_used
CumulativeAt(call, months_used) ==
    calc_cumulative(call.initial_cost, call.residual_value,
                    call.useful_life_months, months_used,
                    call.incoming_depreciation)

\* what holds of every call of calc_cumulative with a positive useful life and
\* a positive depreciable amount; strict tells from which depreciable amount
\* on a later year must be strictly cheaper
CumulativeShape(call, strict_from(_)) ==
    LET d == DepreciableAmount(call)
        n == LifeYears(call.useful_life_months)
        year == call.months_used \div 12
        sum_of_years == (n * (n + 1)) \div 2
    IN  /\ year >= n => call.result = 0
        /\ year < n =>
              /\ 2 * (12 * sum_of_years * call.result - d * (n - year))
                    <= 12 * sum_of_years
              /\ 2 * (d * (n - year) - 12 * sum_of_years * call.result)
                    <= 12 * sum_of_years
        /\ \A other \in MonthsUsedInputs :
              /\ other \div 12 = year => CumulativeAt(call, other) = call.result
              /\ other \div 12 > year => CumulativeAt(call, other) <= call.result
              /\ (other \div 12 > year /\ year < n /\ d >= strict_from(n)) =>
                    CumulativeAt(call, other) < call.result
        /\ (call.useful_life_months = 60 /\ d = 1500000 /\ call.months_used = 0)
              => call.result = 41667
        /\ (call.useful_life_months = 60 /\ d = 1500000 /\ call.months_used = 48)
              => call.result = 8333

\* a depreciable amount that makes one step of the coefficient worth a kopeck
\* a month: 12 * n(n+1)/2 kopecks
KopeckStep(n) == 6 * n * (n + 1)

AnyAmount(n) == 1

\* C19 as amended: calc_cumulative returns the kopeck amount nearest to
\* depreciable amount * remaining_years / (n(n+1)/2) / 12 with
\* n = max(useful_life_months // 12, 1) and
\* remaining_years = n - months_used // 12; the monthly amount is constant
\* within a year of use, never larger in a later year, strictly smaller in a
\* later year when the depreciable amount is at least 12 * n(n+1)/2 kopecks,
\* and 0 once months_used >= 12 * n.
C19_CumulativeShape ==
    (/\ last.op = "calc_cumulative"
     /\ last.useful_life_months > 0
     /\ DepreciableAmount(last) > 0) => CumulativeShape(last, KopeckStep)

\* the call of the fifth year of the example: 15000.00 * (1/15) / 12
C19_Witness ==
    /\ last.op = "calc_cumulative"
    /\ last.useful_life_months = 60
    /\ DepreciableAmount(last) = 1500000
    /\ last.months_used = 48
    /\ last.result = 8333
    /\ CumulativeAt(last, 0) = 41667

\* C19 as stated: for every positive depreciable amount the monthly amount is
\* strictly smaller in every later year than in any earlier year of the
\* useful life.
C19_StrictlySmaller ==
    (/\ last.op = "calc_cumulative"
     /\ last.useful_life_months > 0
     /\ DepreciableAmount(last) > 0) => CumulativeShape(last, AnyAmount)


\* assets that a single accrual depreciates in full: the straight-line inputs
\* with a useful life of one month
ShortLivedInputs ==
    {[d EXCEPT !.useful_life_months = 1] :
        d \in {x \in AssetInputs : x.depreciation_method = "straight_line"}}

InitDepreciated ==
    /\ \E data \in [AssetIds -> ShortLivedInputs] :
           assets = [a \in AssetIds |-> AssetCreate(a, data[a])]
    /\ InitRest

\* accrual batches over assets that are fully depreciated after one accrual
SpecDepreciated == InitDepreciated /\ [][NextBatch]_vars

\* the period index of a DepreciationRecord
PeriodOf(r) == CHOOSE p \in Periods : /\ period_year(p) = r.period_year
                                      /\ period_month(p) = r.period_month

\* the DepreciationRecords of asset a of its latest accrued period
LatestRecords(table, a) ==
    {r \in RecordsOf(table, a) :
        \A x \in RecordsOf(table, a) : PeriodOf(x) <= PeriodOf(r)}

\* the latest DepreciationRecord of asset a left it at its residual_value
FullyDepreciated(a) ==
    /\ RecordsOf(depreciation_records, a) # {}
    /\ \A r \in LatestRecords(depreciation_records, a) :
           r.book_value_after = assets[a].residual_value

\* C20: once the latest DepreciationRecord of an asset has book_value_after
\* equal to the asset's residual_value, an accrual batch adds no
\* DepreciationRecord and no AccountEntry of that asset, leaves its
\* accumulated_depreciation alone, and reports no error item for it in a
\* period it has no record for (the refusal of a period that already has a
\* record is the duplicate check and is not counted here).
C20_SkippedForGood ==
    [][BatchStep =>
          \A a \in DOMAIN assets :
              FullyDepreciated(a) =>
                  /\ SameRows(depreciation_records, depreciation_records', a)
                  /\ SameRows(account_entries, account_entries', a)
                  /\ assets'[a].accumulated_depreciation
                        = assets[a].accumulated_depreciation
                  /\ \A i \in 1..Len(last'.errors) :
                        last'.errors[i] = a =>
                            RecordExists(depreciation_records, a, last'.period)]_vars


\* C21: after a revaluation the stored asset carries the three values written
\* on the AssetRevaluation row: initial_cost = new_initial_cost,
\* accumulated_depreciation = new_depreciation and
\* current_book_value = new_book_value, with
\* new_book_value = new_initial_cost - new_depreciation.
C21_AssetCarriesRevaluation ==
    [][\A a \in DOMAIN assets :
          \A r \in RowsOfAsset(revaluations', a) :
              AddedRow(revaluations, revaluations', a, r) =>
                  /\ r.new_book_value = r.new_initial_cost - r.new_depreciation
                  /\ assets'[a].initial_cost = r.new_initial_cost
                  /\ assets'[a].accumulated_depreciation = r.new_depreciation
                  /\ assets'[a].current_book_value = r.new_book_value]_vars


\* the AccountEntry a revaluation row r of asset a is to post
RevaluationEntry(a, r, account_oz) ==
    [entry_type |-> "revaluation", date |-> r.date,
     debit_account |-> IF r.revaluation_type = "upward" THEN account_oz ELSE "975",
     credit_account |-> IF r.revaluation_type = "upward" THEN "411" ELSE account_oz,
     amount |-> Abs(r.revaluation_amount), asset |-> a]

\* C22: a revaluation is typed upward exactly when fair_value is above the
\* current_book_value it found and downward otherwise, and it adds exactly one
\* AccountEntry, of the absolute revaluation_amount: Dt the group's asset
\* account / Kt 411 when upward, Dt 975 / Kt the group's asset account when
\* downward.
C22_RevaluationEntry ==
    [][\A a \in DOMAIN assets :
          \A r \in RowsOfAsset(revaluations', a) :
              AddedRow(revaluations, revaluations', a, r) =>
                  /\ r.revaluation_type =
                         IF r.fair_value > assets[a].current_book_value
                         THEN "upward" ELSE "downward"
                  /\ AddedRow(account_entries, account_entries', a,
                              RevaluationEntry(a, r, assets[a].group.account_number))]_vars

\* a downward revaluation whose revaluation_amount came out positive has
\* posted its entry, Dt 975, of that amount
C22_Witness ==
    \E r \in Rows(revaluations) :
        /\ r.revaluation_type = "downward"
        /\ r.revaluation_amount > 0
        /\ \E e \in RowsOfAsset(account_entries, r.asset) :
              /\ e.entry_type = "revaluation"
              /\ e.debit_account = "975"
              /\ e.amount = r.revaluation_amount


\* the AccountEntry an improvement row r of asset a is to post
ImprovementEntry(a, r, account_oz) ==
    [entry_type |-> "improvement", date |-> r.date,
     debit_account |-> IF r.increases_value THEN account_oz ELSE r.expense_account,
     credit_account |-> IF r.increases_value THEN "152" ELSE "631",
     amount |-> r.amount, asset |-> a]

\* C23: an improvement with increases_value adds its amount to initial_cost
\* and to current_book_value and leaves accumulated_depreciation,
\* residual_value and status alone; one without increases_value leaves the
\* asset alone; either adds exactly one AccountEntry of the improvement's
\* amount (Dt asset account / Kt 152 when capitalized, Dt expense_account /
\* Kt 631 when expensed).
C23_ImprovementFrame ==
    [][\A a \in DOMAIN assets :
          \A r \in RowsOfAsset(improvements', a) :
              AddedRow(improvements, improvements', a, r) =>
                  /\ r.increases_value =>
                        /\ assets'[a].initial_cost = assets[a].initial_cost + r.amount
                        /\ assets'[a].current_book_value
                              = assets[a].current_book_value + r.amount
                        /\ assets'[a].accumulated_depreciation
                              = assets[a].accumulated_depreciation
                        /\ assets'[a].residual_value = assets[a].residual_value
                        /\ assets'[a].status = assets[a].status
                  /\ ~r.increases_value => assets'[a] = assets[a]
                  /\ AddedRow(account_entries, account_entries', a,
                              ImprovementEntry(a, r, assets[a].group.account_number))]_vars

\* an improvement was capitalized on an asset that had accrued and carries
\* incoming depreciation: its entry is posted and the book value went up by
\* the amount
C23_Witness ==
    \E r \in Rows(improvements) :
        /\ r.increases_value
        /\ assets[r.asset].incoming_depreciation > 0
        /\ assets[r.asset].accumulated_depreciation > 0
        /\ assets[r.asset].current_book_value =
               assets[r.asset].initial_cost - assets[r.asset].incoming_depreciation
                  - assets[r.asset].accumulated_depreciation
        /\ \E e \in RowsOfAsset(account_entries, r.asset) :
              /\ e.entry_type = "improvement"
              /\ e.credit_account = "152"
              /\ e.amount = r.amount


\* the same asset depreciated by the straight-line method
AsStraightLine(asset) == [asset EXCEPT !.depreciation_method = "straight_line"]

\* C24: an accrual of a reducing_balance asset with residual_value <= 0 takes
\* the straight-line monthly amount of the same asset,
\* (initial_cost - residual_value - incoming_depreciation) / useful_life_months
\* rounded and clamped, whatever its incoming_depreciation.
C24_DegradesToStraightLine ==
    [][BatchStep =>
          \A a \in DOMAIN assets :
              \A r \in RecordsOf(depreciation_records', a) :
                  (/\ AddedRow(depreciation_records, depreciation_records', a, r)
                   /\ assets[a].depreciation_method = "reducing_balance"
                   /\ assets[a].residual_value <= 0)
                  => r.amount = calculate_monthly_depreciation(
                                    AsStraightLine(assets[a]), 0, today)]_vars


(***************************************************************************)
(* Disposal requests in flight together.  is_valid() runs validate_asset   *)
(* and loads the Asset row before perform_create opens its transaction;    *)
(* AssetDisposal.asset is a plain ForeignKey, so nothing in the database   *)
(* refuses a second row for the asset.                                     *)
(***************************************************************************)

\* serializer.is_valid(): the existence check and the asset row it loads
DisposalValidate(w) ==
    /\ procs[w].pc = "idle"
    /\ \E a \in DOMAIN assets, disposal_type \in DisposalTypes,
          sale_amount \in SaleAmounts :
         IF DisposalValid(disposals, a)
         THEN /\ procs' = [procs EXCEPT ![w] =
                     [pc |-> "perform", row |-> assets[a],
                      disposal_type |-> disposal_type,
                      sale_amount |-> sale_amount]]
              /\ UNCHANGED last
         ELSE /\ last' = LifecycleResponse("disposal", a, TRUE)
              /\ UNCHANGED procs
    /\ UNCHANGED <<tables, today, registers>>

\* perform_create, one transaction, on the row is_valid() loaded
DisposalPerform(w) ==
    /\ procs[w].pc = "perform"
    /\ Store(DisposalEffect(Storage, procs[w].row, procs[w].disposal_type,
                            procs[w].sale_amount, DocumentDate))
    /\ last' = LifecycleResponse("disposal", procs[w].row.id, FALSE)
    /\ procs' = [procs EXCEPT ![w] = Idle]
    /\ UNCHANGED <<today, registers>>

NextDisposals ==
    \/ \E w \in Workers : DisposalValidate(w)
    \/ \E w \in Workers : DisposalPerform(w)
    \/ Calculate

\* disposal requests of two clients, and accrual batches between them
SpecDisposals == InitConc /\ [][NextDisposals]_vars

\* the number of rows of a table among rs, copies counted
NumRows(table, rs) ==
    IF rs = {} THEN 0 ELSE BagCardinality([r \in rs |-> Count(table, r)])

\* the entries that write the book value of asset a off (Dt 976)
WriteOffs(table, a) ==
    {e \in RowsOfAsset(table, a) : /\ e.entry_type = "disposal"
                                    /\ e.debit_account = "976"}

\* C25: an asset has at most one AssetDisposal, and the disposal entries are
\* posted for at most one disposal (its book value is written off once).
C25_OneDisposal ==
    \A a \in DOMAIN assets :
        /\ NumRows(disposals, RowsOfAsset(disposals, a)) <= 1
        /\ NumRows(account_entries, WriteOffs(account_entries, a)) <= 1


(***************************************************************************)
(* Inventory: populate and the generic endpoints of InventoryItem.  Every  *)
(* item is written through InventoryItem.save.                             *)
(***************************************************************************)
\* actual_value = None
NoValue == 0 - 1
ActualValues == {NoValue, 0, 300, 600}
BookValues == {400, 600}

\* InventoryItem.save: difference is recomputed when there is an actual_value,
\* set to -book_value when there is none and the item is not found, and left
\* as it is otherwise
InventoryItemSave(item) ==
    IF item.actual_value # NoValue
    THEN [item EXCEPT !.difference = item.actual_value - item.book_value]
    ELSE IF ~item.is_found
    THEN [item EXCEPT !.difference = -item.book_value]
    ELSE item

\* get_or_create(inventory, asset, defaults): is_found defaults to True and
\* difference to 0.00
PopulatedItem(asset) ==
    InventoryItemSave([asset |-> asset.id, is_found |-> TRUE,
                       book_value |-> asset.current_book_value,
                       actual_value |-> asset.current_book_value,
                       difference |-> 0])

RECURSIVE PopulateLoop(_, _)
PopulateLoop(items, qs) ==
    IF qs = <<>> THEN items
    ELSE LET asset == assets[Head(qs)]
         IN  PopulateLoop(IF asset.id \in DOMAIN items THEN items
                          ELSE (asset.id :> PopulatedItem(asset)) @@ items,
                          Tail(qs))

InventoryResponse(op, a, rejected) == [op |-> op, asset |-> a, rejected |-> rejected]

\* POST /inventories/{id}/populate/
InventoryPopulate ==
    /\ IF inventory.status # "draft"
       THEN UNCHANGED inventory
       ELSE inventory' = [status |-> "in_progress",
                          items |-> PopulateLoop(inventory.items,
                                                 ActiveQuerySet(assets, {}))]
    /\ last' = InventoryResponse("populate", 0, inventory.status # "draft")
    /\ UNCHANGED <<tables, today, procs, organizations>>

\* POST /inventory-items/ ; difference is read-only, the serializer's
\* UniqueTogetherValidator refuses a second item of the asset
InventoryItemCreate ==
    \E a \in DOMAIN assets, is_found \in BOOLEAN,
       book_value \in BookValues, actual_value \in ActualValues :
        LET rejected == a \in DOMAIN inventory.items
            item == InventoryItemSave([asset |-> a, is_found |-> is_found,
                                       book_value |-> book_value,
                                       actual_value |-> actual_value,
                                       difference |-> 0])
        IN  /\ inventory' = IF rejected THEN inventory
                            ELSE [inventory EXCEPT !.items = (a :> item) @@ @]
            /\ last' = InventoryResponse("item_create", a, rejected)
            /\ UNCHANGED <<tables, today, procs, organizations>>

\* PATCH /inventory-items/{id}/ with is_found and actual_value
InventoryItemUpdate ==
    \E a \in DOMAIN inventory.items, is_found \in BOOLEAN,
       actual_value \in ActualValues :
        /\ inventory' = [inventory EXCEPT !.items[a] =
               InventoryItemSave([@ EXCEPT !.is_found = is_found,
                                           !.actual_value = actual_value])]
        /\ last' = InventoryResponse("item_update", a, FALSE)
        /\ UNCHANGED <<tables, today, procs, organizations>>

NextInventory ==
    \/ InventoryPopulate
    \/ InventoryItemCreate
    \/ InventoryItemUpdate

\* one inventory over the assets of InitBatch
SpecInventory == InitBatch /\ [][NextInventory]_vars

\* C26: every stored InventoryItem has difference = -book_value when it is
\* not found, and difference = actual_value - book_value when it is found and
\* has an actual_value.
C26_Difference ==
    \A a \in DOMAIN inventory.items :
        LET item == inventory.items[a]
        IN  /\ ~item.is_found => item.difference = -item.book_value
            /\ (item.is_found /\ item.actual_value # NoValue)
                  => item.difference = item.actual_value - item.book_value


\* C27: a revaluation of an asset with current_book_value > 0 leaves the
\* asset's current_book_value at the submitted fair_value and records
\* revaluation_amount = fair_value - old_book_value, which is positive exactly
\* when the type is upward.
C27_BookValueIsFairValue ==
    [][\A a \in DOMAIN assets :
          \A r \in RowsOfAsset(revaluations', a) :
              (/\ AddedRow(revaluations, revaluations', a, r)
               /\ assets[a].current_book_value > 0)
              => /\ assets'[a].current_book_value = r.fair_value
                 /\ r.revaluation_amount = r.fair_value - r.old_book_value
                 /\ (r.revaluation_amount > 0) = (r.revaluation_type = "upward")]_vars


\* C28: no DepreciationRecord is for a period before the month of its asset's
\* depreciation_start_date.
C28_NotBeforeStart ==
    \A r \in Rows(depreciation_records) :
        PeriodOf(r) >= assets[r.asset].depreciation_start_date


\* C29: every AccountEntry has amount >= 0.01, the minimum its field declares.
C29_EntryAmountPositive ==
    \A e \in Rows(account_entries) : e.amount >= 1


(***************************************************************************)
(* Organization.save, as OrganizationViewSet runs it for two clients: the  *)
(* UPDATE that clears the flag of the other rows and the write of the row  *)
(* itself are two statements, with no transaction or lock around them.     *)
(***************************************************************************)
OrgIds == {1, 2, 3}

OrganizationResponse(op, pk) == [op |-> op, organization |-> pk]

\* Organization.objects.filter(is_own=True).exclude(pk=pk).update(is_own=False)
ClearOthers(rows, pk) ==
    [o \in DOMAIN rows |-> IF o # pk THEN [rows[o] EXCEPT !.is_own = FALSE]
                            ELSE rows[o]]

\* save() up to super().save(): the flag of the other rows is cleared when
\* the saved row has is_own
OrganizationSaveBegin(w) ==
    /\ procs[w].pc = "idle"
    /\ \E pk \in DOMAIN organizations, is_own \in BOOLEAN :
         /\ procs' = [procs EXCEPT ![w] =
                [pc |-> "save", organization |-> pk, is_own |-> is_own]]
         /\ organizations' = IF is_own THEN ClearOthers(organizations, pk)
                             ELSE organizations
    /\ UNCHANGED <<tables, today, last, inventory>>

\* super().save(): the row is written
OrganizationSaveWrite(w) ==
    /\ procs[w].pc = "save"
    /\ organizations' = [organizations EXCEPT
           ![procs[w].organization].is_own = procs[w].is_own]
    /\ last' = OrganizationResponse("organization_save", procs[w].organization)
    /\ procs' = [procs EXCEPT ![w] = Idle]
    /\ UNCHANGED <<tables, today, inventory>>

InitOrganizations ==
    /\ assets = <<>>
    /\ depreciation_records = EmptyBag
    /\ account_entries = EmptyBag
    /\ disposals = EmptyBag
    /\ revaluations = EmptyBag
    /\ improvements = EmptyBag
    /\ today = 0
    /\ inventory = NoInventory
    /\ last = NoResponse
    /\ procs = [w \in Workers |-> Idle]
    /\ organizations = [o \in OrgIds |-> [is_own |-> FALSE]]

NextOrganizations ==
    \/ \E w \in Workers : OrganizationSaveBegin(w)
    \/ \E w \in Workers : OrganizationSaveWrite(w)

SpecOrganizations == InitOrganizations /\ [][NextOrganizations]_vars

\* C30: at most one Organization has is_own.
C30_OneOwnOrganization ==
    Cardinality({o \in DOMAIN organizations : organizations[o].is_own}) <= 1


\* assets taken over with depreciation already charged elsewhere
\* (incoming_depreciation > 0, no residual value) that a single accrual
\* depreciates in full
CarriedOverInputs ==
    {[d EXCEPT !.residual_value = 0, !.incoming_depreciation = 200] :
        d \in ShortLivedInputs}

InitCarriedOver ==
    /\ \E d \in CarriedOverInputs : assets = [a \in {1} |-> AssetCreate(a, d)]
    /\ InitRest

\* the requests of Spec on one carried-over asset
SpecCarriedOver == InitCarriedOver /\ [][Next]_vars

=============================================================================
